---- MODULE Spec2Model ----
(***************************************************************************)
(* Model of the datadog-logs dispatch engine: the DataDogLogger facade     *)
(* (src/src/logger/logger.rs), the non-blocking dispatcher logger_future   *)
(* and its send helper (src/src/logger/nonblocking.rs).  The blocking      *)
(* dispatcher blocking::logger_thread is not part of the sources at hand   *)
(* and is modelled from section 4.2/4.3 of the specification.              *)
(*                                                                         *)
(* A record is represented by the message text the caller passed to log(). *)
(* Under Spec every log() call carries a fresh message (1, 2, 3, ...), so  *)
(* a record is identified by its message; under SpecLoad every call        *)
(* carries the same message, which keeps the long runs that fill a batch   *)
(* of 51 records or a Self-Log Channel of 100 entries small.               *)
(***************************************************************************)
EXTENDS Integers, Sequences, FiniteSets

\* ---- bounds of the model ------------------------------------------------
MaxLogs == 4         \* log() calls with distinct messages under Spec
CapN == 2            \* capacity of the bounded channel under Spec
MaxStore == 52       \* no dequeue into a batch already holding this many records
LoadCap == 1         \* capacity of the bounded channel under SpecLoad

\* ---- program constants --------------------------------------------------
FlushThreshold == 50      \* nonblocking.rs:21  store.len() < 50
SelfLogCapacity == 100    \* logger.rs:98       bounded::<String>(100)

\* Option<T> is a sequence of length at most one.
None == <<>>
Some(x) == <<x>>

Range(s) == {s[i] : i \in 1..Len(s)}

VARIABLES
    mode,            \* "blocking" | "nonblocking": which constructor built the logger
    capacity,        \* config.messages_channel_capacity : Option<usize>
    enable_self_log, \* config.enable_self_log
    logsender,       \* DataDogLogger.logsender is Some
    selflogrv,       \* DataDogLogger.selflogrv is Some
    selflogsd,       \* DataDogLogger.selflogsd is Some
    logger_handle,   \* DataDogLogger.logger_handle is Some
    facade,          \* "alive" | "joining" (inside drop, waiting in join) | "destroyed"
    chan,            \* records queued in the producer channel, head first
    selflog,         \* number of texts queued in the Self-Log Channel
    dselflog,        \* the dispatcher's selflog argument is Some
    store,           \* the dispatcher's batch (store / logs)
    pc,              \* the dispatcher's position
    ret,             \* where the dispatcher continues after send(): "loop" | "await" | "break"
    attempted,       \* records of all batches passed to the delivery capability so far
    shipped,         \* records of all batches whose delivery returned Ok
    accepted,        \* records whose enqueue succeeded
    nextId           \* message of the next log() call under Spec

vars == <<mode, capacity, enable_self_log, logsender, selflogrv, selflogsd,
          logger_handle, facade, chan, selflog, dselflog, store, pc, ret,
          attempted, shipped, accepted, nextId>>

config == <<mode, capacity, enable_self_log>>
handles == <<selflogrv, selflogsd, dselflog>>
dispatcher == <<store, pc, ret>>
client == <<attempted, shipped>>

\* ---- channel primitives (flume) ----------------------------------------

\* The receiving half of the producer channel lives in the dispatcher: it is
\* gone once the future has completed or was dropped, or the thread has ended.
RxAlive == pc \notin {"done", "abandoned", "panicked"}

\* The receiving half of the Self-Log Channel is a field of the facade.
SelfLogRxAlive == selflogrv /\ facade # "destroyed"

IsFull(q, cap) == cap # None /\ Len(q) >= cap[1]

\* Sender::try_send on the producer channel: the queue afterwards and whether
\* the record went in.  A disconnected channel is reported before a full one.
TrySendDropOldest(q, cap, rx, m) ==
    IF ~rx THEN [ok |-> FALSE, q |-> q]
    ELSE IF IsFull(q, cap) THEN [ok |-> FALSE, q |-> Append(Tail(q), m)]
    ELSE [ok |-> TRUE, q |-> Append(q, m)]

TrySend(q, cap, rx, m) ==
    IF ~rx \/ IsFull(q, cap) THEN [ok |-> FALSE, q |-> q]
    ELSE [ok |-> TRUE, q |-> Append(q, m)]

\* Sender::try_send(..).unwrap_or_default() on the Self-Log Channel: the
\* number of queued texts afterwards.
SelfLogTrySendUnbounded(n, rx) == IF rx THEN n + 1 ELSE n

SelfLogTrySend(n, rx) == IF rx /\ n < SelfLogCapacity THEN n + 1 ELSE n

\* ---- construction -------------------------------------------------------

ConstructAlwaysSelfLog(m, cap, esl) ==
    /\ mode = m
    /\ capacity = cap
    /\ enable_self_log = esl
    /\ logsender = TRUE
    /\ selflogrv = TRUE
    /\ selflogsd = TRUE
    /\ dselflog = TRUE
    /\ logger_handle = (m = "blocking")
    /\ facade = "alive"
    /\ chan = <<>>
    /\ selflog = 0
    /\ store = <<>>
    /\ pc = IF m = "blocking" THEN "try_recv" ELSE "cold"
    /\ ret = "loop"
    /\ attempted = {}
    /\ shipped = {}
    /\ accepted = {}
    /\ nextId = 1

\* DataDogLogger::blocking and DataDogLogger::non_blocking_cold.
Construct(m, cap, esl) ==
    /\ mode = m
    /\ capacity = cap
    /\ enable_self_log = esl
    /\ logsender = TRUE
    /\ selflogrv = esl
    /\ selflogsd = esl
    /\ dselflog = esl
    /\ logger_handle = (m = "blocking")
    /\ facade = "alive"
    /\ chan = <<>>
    /\ selflog = 0
    /\ store = <<>>
    /\ pc = IF m = "blocking" THEN "try_recv" ELSE "cold"
    /\ ret = "loop"
    /\ attempted = {}
    /\ shipped = {}
    /\ accepted = {}
    /\ nextId = 1

Init ==
    \E m \in {"blocking", "nonblocking"}, cap \in {None, Some(CapN)}, esl \in BOOLEAN :
        Construct(m, cap, esl)

InitLoad ==
    \E esl \in BOOLEAN : Construct("nonblocking", Some(LoadCap), esl)

\* ---- facade -------------------------------------------------------------

LogNotingEveryCall(m) ==
    /\ facade = "alive"
    /\ logsender
    /\ LET r == TrySend(chan, capacity, RxAlive, m) IN
        /\ chan' = r.q
        /\ accepted' = IF r.ok THEN accepted \cup {m} ELSE accepted
        /\ selflog' = IF selflogsd
                      THEN SelfLogTrySend(selflog, SelfLogRxAlive)
                      ELSE selflog
    /\ UNCHANGED <<config, handles, logger_handle, logsender, facade, dispatcher, client>>

\* DataDogLogger::log with message m.
Log(m) ==
    /\ facade = "alive"
    /\ logsender
    /\ LET r == TrySend(chan, capacity, RxAlive, m) IN
        /\ chan' = r.q
        /\ accepted' = IF r.ok THEN accepted \cup {m} ELSE accepted
        /\ selflog' = IF ~r.ok /\ selflogsd
                      THEN SelfLogTrySend(selflog, SelfLogRxAlive)
                      ELSE selflog
    /\ UNCHANGED <<config, handles, logger_handle, logsender, facade, dispatcher, client>>

LogFresh ==
    /\ nextId <= MaxLogs
    /\ Log(nextId)
    /\ nextId' = nextId + 1

LogSame ==
    /\ Log(0)
    /\ UNCHANGED nextId

\* Receiver::recv on the handle selflog() exposes: the caller takes one text.
SelfLogRecv ==
    /\ facade = "alive"
    /\ selflogrv
    /\ selflog > 0
    /\ selflog' = selflog - 1
    /\ UNCHANGED <<config, handles, logger_handle, logsender, facade, chan,
                   dispatcher, client, accepted, nextId>>

DropAlwaysJoins ==
    /\ facade = "alive"
    /\ logsender' = FALSE
    /\ facade' = "joining"
    /\ UNCHANGED <<config, handles, logger_handle, chan, selflog, dispatcher,
                   client, accepted, nextId>>

\* Drop for DataDogLogger, up to the join: the sender is taken and dropped;
\* without a thread handle there is nothing to wait for.
Drop ==
    /\ facade = "alive"
    /\ logsender' = FALSE
    /\ facade' = IF logger_handle THEN "joining" ELSE "destroyed"
    /\ UNCHANGED <<config, handles, logger_handle, chan, selflog, dispatcher,
                   client, accepted, nextId>>

\* JoinHandle::join returns once the thread has ended: Ok after a normal
\* return, Err after a panic.
JoinResult(p) == IF p = "panicked" THEN "Err" ELSE "Ok"

\* handle.join().unwrap_or_default(): either result ends drop() normally.
UnwrapOrDefault(r) == "destroyed"

JoinWithoutWaiting ==
    /\ facade = "joining"
    /\ logger_handle' = FALSE
    /\ facade' = UnwrapOrDefault(JoinResult(pc))
    /\ UNCHANGED <<config, handles, logsender, chan, selflog, dispatcher,
                   client, accepted, nextId>>

\* Drop for DataDogLogger, the join and the return from drop().
Join ==
    /\ facade = "joining"
    /\ pc \in {"done", "panicked"}
    /\ logger_handle' = FALSE
    /\ facade' = UnwrapOrDefault(JoinResult(pc))
    /\ UNCHANGED <<config, handles, logsender, chan, selflog, dispatcher,
                   client, accepted, nextId>>

\* ---- non-blocking dispatcher (logger_future, send) ---------------------

\* store.push(msg)
PushFront(s, m) == <<m>> \o s

Push(s, m) == Append(s, m)

\* The test `store.len() < 50` made on the batch before the push: below the
\* threshold the loop continues, otherwise the batch is sent after the push.
BelowThreshold(s) == Len(s) < FlushThreshold

\* `if !store.is_empty()` in the Empty and Disconnected arms.
NeverFlush(s) == FALSE

MustFlush(s) == s # <<>>

AfterIdleFlushEnds(r) ==
    CASE r = "loop" -> "try_recv"
      [] r = "await" -> "done"
      [] r = "break" -> "done"

\* The position send() returns to.
After(r) ==
    CASE r = "loop" -> "try_recv"
      [] r = "await" -> "await_next"
      [] r = "break" -> "done"

\* send() up to its first await: client.send_async(&logs) is called with the batch.
Invoke(batch, r) ==
    /\ pc' = "sending"
    /\ ret' = r
    /\ attempted' = attempted \cup Range(batch)

SpawnWaitsFirst ==
    /\ mode = "nonblocking"
    /\ pc = "cold"
    /\ pc' = "await_next"
    /\ UNCHANGED <<config, handles, logger_handle, logsender, facade, chan,
                   selflog, store, ret, client, accepted, nextId>>

\* The first poll of the future: the body runs up to the loop.
Spawn ==
    /\ mode = "nonblocking"
    /\ pc = "cold"
    /\ pc' = "try_recv"
    /\ UNCHANGED <<config, handles, logger_handle, logsender, facade, chan,
                   selflog, store, ret, client, accepted, nextId>>

\* One turn of the loop: logs.try_recv() and the arm it selects, up to the
\* next await.
TryRecv ==
    /\ mode = "nonblocking"
    /\ pc = "try_recv"
    /\ IF chan # <<>>
       THEN /\ Len(store) < MaxStore
            /\ chan' = Tail(chan)
            /\ store' = Push(store, Head(chan))
            /\ IF BelowThreshold(store)
               THEN /\ pc' = "try_recv"
                    /\ UNCHANGED <<ret, attempted>>
               ELSE Invoke(store', "loop")
       ELSE /\ UNCHANGED <<chan, store>>
            /\ IF MustFlush(store)
               THEN Invoke(store, IF logsender THEN "await" ELSE "break")
               ELSE /\ pc' = IF logsender THEN "await_next" ELSE "done"
                    /\ UNCHANGED <<ret, attempted>>
    /\ UNCHANGED <<config, handles, logger_handle, logsender, facade, selflog,
                   shipped, accepted, nextId>>

\* client.send_async(&logs) returns Ok or Err; the client has then seen the batch.
ClientReturn ==
    /\ mode = "nonblocking"
    /\ pc = "sending"
    /\ \E ok \in BOOLEAN :
        /\ pc' = IF ok THEN "send_ok" ELSE "send_err"
        /\ shipped' = IF ok THEN shipped \cup Range(store) ELSE shipped
    /\ UNCHANGED <<config, handles, logger_handle, logsender, facade, chan,
                   selflog, store, ret, attempted, accepted, nextId>>

\* client.send_async(&logs).await of a client whose every call returns Ok.
ClientReturnOk ==
    /\ mode = "nonblocking"
    /\ pc = "sending"
    /\ pc' = "send_ok"
    /\ shipped' = shipped \cup Range(store)
    /\ UNCHANGED <<config, handles, logger_handle, logsender, facade, chan,
                   selflog, store, ret, attempted, accepted, nextId>>

\* selflog.send_async(text).await.unwrap_or_default() on the bounded Self-Log
\* Channel: the text goes in when there is room, the call fails at once when
\* the receiver is gone, and otherwise it waits for room.
SelfLogSendAsyncSilent(n, present, rx) == [n |-> n, pending |-> FALSE]

SelfLogSendAsync(n, present, rx) ==
    IF ~present \/ ~rx THEN [n |-> n, pending |-> FALSE]
    ELSE IF n < SelfLogCapacity THEN [n |-> n + 1, pending |-> FALSE]
    ELSE [n |-> n, pending |-> TRUE]

\* logs.clear()
ClearNothing(s) == s

Clear(s) == <<>>

SendResultClearsOnFailure ==
    /\ mode = "nonblocking"
    /\ pc \in {"send_ok", "send_err"}
    /\ store' = Clear(store)
    /\ IF pc = "send_ok"
       THEN /\ pc' = After(ret)
            /\ ret' = "loop"
            /\ UNCHANGED selflog
       ELSE LET o == SelfLogSendAsync(selflog, dselflog, SelfLogRxAlive) IN
            /\ selflog' = o.n
            /\ pc' = IF o.pending THEN "selflog_send" ELSE After(ret)
            /\ ret' = IF o.pending THEN ret ELSE "loop"
    /\ UNCHANGED <<config, handles, logger_handle, logsender, facade, chan,
                   client, accepted, nextId>>

\* The rest of send() after the client returned.
SendResult ==
    /\ mode = "nonblocking"
    /\ pc \in {"send_ok", "send_err"}
    /\ IF pc = "send_ok"
       THEN /\ store' = Clear(store)
            /\ pc' = After(ret)
            /\ ret' = "loop"
            /\ UNCHANGED selflog
       ELSE LET o == SelfLogSendAsync(selflog, dselflog, SelfLogRxAlive) IN
            /\ selflog' = o.n
            /\ pc' = IF o.pending THEN "selflog_send" ELSE After(ret)
            /\ ret' = IF o.pending THEN ret ELSE "loop"
            /\ UNCHANGED store
    /\ UNCHANGED <<config, handles, logger_handle, logsender, facade, chan,
                   client, accepted, nextId>>

\* The pending selflog.send_async completes: room appeared or the receiver went away.
SelfLogSendResume ==
    /\ mode = "nonblocking"
    /\ pc = "selflog_send"
    /\ ~SelfLogRxAlive \/ selflog < SelfLogCapacity
    /\ selflog' = IF SelfLogRxAlive THEN selflog + 1 ELSE selflog
    /\ pc' = After(ret)
    /\ ret' = "loop"
    /\ UNCHANGED <<config, handles, logger_handle, logsender, facade, chan,
                   store, client, accepted, nextId>>

\* peekable_logs.next(): the stream yields the head of the channel, taking it
\* out, or ends when the channel is empty and the sender is gone.
StreamNext(q) == IF q # <<>> THEN Tail(q) ELSE q

AwaitNextRecordOnly ==
    /\ mode = "nonblocking"
    /\ pc = "await_next"
    /\ chan # <<>>
    /\ chan' = StreamNext(chan)
    /\ pc' = "try_recv"
    /\ UNCHANGED <<config, handles, logger_handle, logsender, facade, selflog,
                   store, ret, client, accepted, nextId>>

\* `let _ = peekable_logs.next().await` completes.
AwaitNext ==
    /\ mode = "nonblocking"
    /\ pc = "await_next"
    /\ chan # <<>> \/ ~logsender
    /\ chan' = StreamNext(chan)
    /\ pc' = "try_recv"
    /\ UNCHANGED <<config, handles, logger_handle, logsender, facade, selflog,
                   store, ret, client, accepted, nextId>>

\* The runtime drops the future at one of its awaits (or before its first
\* poll): the batch and the receiver go with it.
Abandon ==
    /\ mode = "nonblocking"
    /\ pc \in {"cold", "await_next", "sending", "selflog_send"}
    /\ pc' = "abandoned"
    /\ store' = <<>>
    /\ ret' = "loop"
    /\ UNCHANGED <<config, handles, logger_handle, logsender, facade, chan,
                   selflog, client, accepted, nextId>>

\* ---- blocking dispatcher (blocking::logger_thread) ----------------------
\* Modelled from the Batching Policy of the specification: dequeue without
\* waiting; append and deliver when the batch reaches the threshold; on an
\* empty channel deliver a non-empty batch and wait for the next record; on a
\* closed channel deliver what remains and end.  A failed delivery offers one
\* text to the Self-Log Channel, best effort, and keeps the batch.

BTryRecv ==
    /\ mode = "blocking"
    /\ pc = "try_recv"
    /\ IF chan # <<>>
       THEN /\ Len(store) < MaxStore
            /\ chan' = Tail(chan)
            /\ store' = Append(store, Head(chan))
            /\ IF Len(store') < FlushThreshold
               THEN /\ pc' = "try_recv"
                    /\ UNCHANGED <<ret, attempted>>
               ELSE Invoke(store', "loop")
       ELSE /\ UNCHANGED <<chan, store>>
            /\ IF store # <<>>
               THEN Invoke(store, IF logsender THEN "await" ELSE "break")
               ELSE /\ pc' = IF logsender THEN "await_next" ELSE "done"
                    /\ UNCHANGED <<ret, attempted>>
    /\ UNCHANGED <<config, handles, logger_handle, logsender, facade, selflog,
                   shipped, accepted, nextId>>

\* client.send(&logs) returns Ok or Err, or panics and ends the thread.
BClientReturn ==
    /\ mode = "blocking"
    /\ pc = "sending"
    /\ \E outcome \in {"Ok", "Err", "Panic"} :
        /\ pc' = CASE outcome = "Ok" -> "send_ok"
                   [] outcome = "Err" -> "send_err"
                   [] outcome = "Panic" -> "panicked"
        /\ shipped' = IF outcome = "Ok" THEN shipped \cup Range(store) ELSE shipped
        /\ store' = IF outcome = "Panic" THEN <<>> ELSE store
        /\ ret' = IF outcome = "Panic" THEN "loop" ELSE ret
    /\ UNCHANGED <<config, handles, logger_handle, logsender, facade, chan,
                   selflog, attempted, accepted, nextId>>

BSendResult ==
    /\ mode = "blocking"
    /\ pc \in {"send_ok", "send_err"}
    /\ store' = IF pc = "send_ok" THEN <<>> ELSE store
    /\ selflog' = IF pc = "send_err" /\ dselflog
                  THEN SelfLogTrySend(selflog, SelfLogRxAlive)
                  ELSE selflog
    /\ pc' = After(ret)
    /\ ret' = "loop"
    /\ UNCHANGED <<config, handles, logger_handle, logsender, facade, chan,
                   client, accepted, nextId>>

\* The blocking wait ends: a record arrived or the channel closed.
BWait ==
    /\ mode = "blocking"
    /\ pc = "await_next"
    /\ chan # <<>> \/ ~logsender
    /\ pc' = "try_recv"
    /\ UNCHANGED <<config, handles, logger_handle, logsender, facade, chan,
                   selflog, store, ret, client, accepted, nextId>>

\* ---- specifications -----------------------------------------------------

\* Both constructors, bounded and unbounded channel, distinct messages.  With
\* at most MaxLogs log() calls the Self-Log Channel never fills, so the
\* dispatcher never waits in selflog.send_async here.
Next ==
    \/ LogFresh
    \/ SelfLogRecv
    \/ Drop
    \/ Join
    \/ Spawn
    \/ TryRecv
    \/ ClientReturn
    \/ SendResult
    \/ AwaitNext
    \/ Abandon
    \/ BTryRecv
    \/ BClientReturn
    \/ BSendResult
    \/ BWait

Spec == Init /\ [][Next]_vars

\* The non-blocking logger on a bounded channel, any number of log() calls
\* with the same message: long enough runs to fill a batch and the Self-Log
\* Channel.
NextLoad ==
    \/ LogSame
    \/ SelfLogRecv
    \/ Drop
    \/ Spawn
    \/ TryRecv
    \/ ClientReturn
    \/ SendResult
    \/ SelfLogSendResume
    \/ AwaitNext
    \/ Abandon

SpecLoad == InitLoad /\ [][NextLoad]_vars

\* Spec with the scheduling the runtime and the operating system provide: a
\* spawned future is polled when it can make progress, a thread runs, and
\* every delivery call returns.  Nothing is assumed of the caller (log, drop,
\* reading the self-log) nor of the runtime keeping the future.
\* The non-blocking logger with a client that never fails and a future that
\* is polled to completion: distinct messages, bounded and unbounded channel.
InitNB ==
    \E cap \in {None, Some(CapN)}, esl \in BOOLEAN :
        Construct("nonblocking", cap, esl)

NextAllOk ==
    \/ LogFresh
    \/ SelfLogRecv
    \/ Drop
    \/ Spawn
    \/ TryRecv
    \/ ClientReturnOk
    \/ SendResult
    \/ AwaitNext

SpecAllOk == InitNB /\ [][NextAllOk]_vars

DispatcherFairness ==
    /\ WF_vars(Spawn)
    /\ WF_vars(TryRecv)
    /\ WF_vars(ClientReturn)
    /\ WF_vars(SendResult)
    /\ WF_vars(AwaitNext)
    /\ WF_vars(BTryRecv)
    /\ WF_vars(BClientReturn)
    /\ WF_vars(BSendResult)
    /\ WF_vars(BWait)

SpecLive == Init /\ [][Next]_vars /\ DispatcherFairness

\* ---- claims ---------------------------------------------------------------

StrictlyIncreasing(s) == \A i, j \in 1..Len(s) : i < j => s[i] < s[j]

\* C1 (as claimed): when the dispatcher has terminated, every record whose
\* enqueue succeeded has been part of a batch passed to the delivery capability.
C1_NoLossAtTermination ==
    pc = "done" => accepted \subseteq attempted

\* C2: a log() call on a full bounded channel is enabled whatever the
\* dispatcher is doing, leaves the queued records and their order unchanged and
\* its record is not enqueued; only enqueued records are ever queued, batched
\* or passed to the delivery capability, so the dropped record never is.
C2_BackpressureDrops ==
    /\ [][(nextId' # nextId /\ RxAlive /\ IsFull(chan, capacity))
            => /\ chan' = chan
               /\ nextId \notin accepted'
               /\ UNCHANGED <<store, pc, attempted, shipped>>]_vars
    /\ [](Range(chan) \cup Range(store) \cup attempted \subseteq accepted)
    /\ []((facade = "alive" /\ nextId <= MaxLogs) => ENABLED LogFresh)

C2_Witness ==
    /\ capacity # None
    /\ Len(chan) = capacity[1]
    /\ RxAlive
    /\ nextId > 1
    /\ (nextId - 1) \notin accepted
    /\ attempted # {}

\* C3: a failing log() adds exactly one text to the Self-Log Channel when
\* diagnostics are enabled and there is room, and nothing when they are
\* disabled or the channel holds its 100 texts; a succeeding log() adds none
\* and appends its record; log() is always enabled on a live facade; the
\* Self-Log Channel never holds more than 100 texts.
C3_EnqueueFailureDiagnostics ==
    /\ [][LogSame =>
            LET fails == ~RxAlive \/ IsFull(chan, capacity) IN
            /\ (fails /\ selflogsd /\ selflog < 100) => selflog' = selflog + 1
            /\ (fails /\ (~selflogsd \/ selflog >= 100)) => selflog' = selflog
            /\ fails => chan' = chan
            /\ ~fails => (selflog' = selflog /\ chan' = Append(chan, 0))]_vars
    /\ [](selflog <= 100)
    /\ [](facade = "alive" => ENABLED LogSame)

C3_Witness ==
    /\ selflog = 100
    /\ selflogsd
    /\ facade = "alive"
    /\ pc = "cold"
    /\ Len(chan) = LoadCap

\* C4 (as claimed): the batch passed to a delivery that the threshold test
\* triggered holds exactly 50 records.
C4_ThresholdBatchIsFifty ==
    (mode = "nonblocking" /\ pc = "sending" /\ ret = "loop") => Len(store) = 50

\* C5: whenever a delivery succeeds, its batch is in enqueue order and every
\* record of it was enqueued after every record delivered successfully
\* before; the batch followed by the channel is always in enqueue order.
C5_DeliveryOrder ==
    /\ [][shipped' # shipped
            => /\ StrictlyIncreasing(store)
               /\ \A a \in shipped, b \in Range(store) : a < b]_vars
    /\ [](StrictlyIncreasing(store \o chan))

C5_Witness ==
    /\ mode = "nonblocking"
    /\ pc = "send_ok"
    /\ Len(store) >= 2
    /\ shipped \ Range(store) # {}

\* C6 (as claimed): the accumulating batch never holds more than 50 records.
C6_BatchAtMostFifty ==
    mode = "nonblocking" => Len(store) <= 50

\* C7: a dispatcher that holds a non-empty batch of fewer than 50 records and
\* finds the open channel empty passes exactly that batch to the delivery
\* capability, to continue with the wait afterwards; so whenever it waits for
\* the next record, whatever its batch holds has been passed to delivery.
C7_IdleFlush ==
    /\ [][(pc = "try_recv" /\ chan = <<>> /\ logsender /\ store # <<>>
             /\ Len(store) < 50 /\ pc' # pc)
            => /\ pc' = "sending"
               /\ ret' = "await"
               /\ store' = store
               /\ Range(store) \subseteq attempted']_vars
    /\ [](pc = "await_next" => Range(store) \subseteq attempted)

C7_Witness ==
    /\ mode = "nonblocking"
    /\ pc = "sending"
    /\ ret = "await"
    /\ store # <<>>
    /\ Len(store) < 50
    /\ chan = <<>>
    /\ logsender

\* C8: inside drop() the producer handle is already closed while the facade
\* waits in join; drop() of a blocking logger has returned only when the
\* dispatcher thread has ended, normally or by a panic, and it always returns
\* normally.
C8_BlockingShutdown ==
    /\ facade \in {"alive", "joining", "destroyed"}
    /\ facade = "alive" => logsender
    /\ facade = "joining" => (~logsender /\ mode = "blocking")
    /\ (mode = "blocking" /\ facade = "destroyed")
         => (~logsender /\ ~logger_handle /\ pc \in {"done", "panicked"})

C8_Witness ==
    /\ mode = "blocking"
    /\ facade = "destroyed"
    /\ pc = "done"
    /\ accepted # {}
    /\ accepted \subseteq attempted

\* C9: when send() continues after a successful delivery the batch is empty
\* afterwards; after a failed delivery a present Self-Log sender is offered
\* exactly one text: it is queued when there is room, and pending otherwise,
\* to be queued as one text when the wait ends; without a sender nothing is
\* queued.
C9_DeliveryOutcome ==
    [][/\ (pc = "send_ok" /\ pc' # pc) => (store' = <<>> /\ selflog' = selflog)
       /\ (pc = "send_err" /\ pc' # pc /\ dselflog /\ SelfLogRxAlive /\ selflog < 100)
            => (selflog' = selflog + 1 /\ pc' # "selflog_send")
       /\ (pc = "send_err" /\ pc' # pc /\ dselflog /\ SelfLogRxAlive /\ selflog >= 100)
            => (selflog' = selflog /\ pc' = "selflog_send")
       /\ (pc = "send_err" /\ pc' # pc /\ ~(dselflog /\ SelfLogRxAlive))
            => (selflog' = selflog /\ pc' # "selflog_send")
       /\ (pc = "selflog_send" /\ pc' \notin {pc, "abandoned"} /\ SelfLogRxAlive)
            => selflog' = selflog + 1]_vars

C9_Witness ==
    /\ mode = "nonblocking"
    /\ nextId = 2
    /\ accepted = {1}
    /\ store = <<1>>
    /\ pc = "await_next"
    /\ selflog = 1

\* C10 (as claimed): the dispatcher never waits on the Self-Log Channel.
C10_NeverWaitsOnSelfLog ==
    pc # "selflog_send"


\* C11 (as claimed): the non-blocking dispatcher has terminated only with the
\* producer handle closed, the channel empty and its batch empty.
C11_TerminatesWithEmptyBatch ==
    (mode = "nonblocking" /\ pc = "done")
        => (~logsender /\ chan = <<>> /\ store = <<>>)

\* C11 (amended): the dispatcher has terminated only with the producer handle
\* closed and the channel empty, and its batch then holds only records that
\* were passed to a delivery call and never delivered successfully (the
\* final delivery failed).
C11_TerminationCondition ==
    pc = "done"
        => /\ ~logsender
           /\ chan = <<>>
           /\ Range(store) \subseteq attempted
           /\ Range(store) \cap shipped = {}

C11_Witness ==
    /\ mode = "nonblocking"
    /\ pc = "done"
    /\ store # <<>>
    /\ chan = <<>>
    /\ ~logsender


\* The dispatcher has ended: the future completed or was dropped by the
\* runtime, the thread returned or panicked.
Ended == pc \in {"done", "abandoned", "panicked"}

\* C12: once the producer handle is closed, the dispatcher eventually ends
\* (by completing, unless the runtime drops the future or the client panics).
C12_ShutdownLiveness ==
    (~logsender) ~> Ended

C12_Witness ==
    /\ mode = "nonblocking"
    /\ pc = "done"
    /\ facade = "destroyed"
    /\ shipped # {}
    /\ attempted \ shipped # {}


\* C13: the read handle selflog() yields, the facade's write handle and the
\* dispatcher's write handle are all present when enable_self_log is set and
\* all absent when it is not, for both constructors; without it no text is
\* ever queued, whatever enqueues and deliveries fail.
C13_SelfLogHandles ==
    /\ selflogrv = enable_self_log
    /\ selflogsd = enable_self_log
    /\ dselflog = enable_self_log
    /\ ~enable_self_log => selflog = 0

C13_Witness ==
    /\ mode = "nonblocking"
    /\ ~enable_self_log
    /\ ~selflogrv
    /\ nextId > 1
    /\ (nextId - 1) \notin accepted
    /\ pc = "await_next"
    /\ store # <<>>
    /\ selflog = 0


\* C14: a log() step passes nothing to the delivery capability and leaves the
\* dispatcher alone; a successful one appends its record at the tail of the
\* channel and changes nothing else; a batch is passed to delivery only by a
\* dispatcher step that enters the delivery call.
C14_LogPerformsNoDelivery ==
    /\ [][nextId' # nextId
            => /\ UNCHANGED <<attempted, shipped, store, pc, ret>>
               /\ nextId \in accepted'
                    => /\ chan' = Append(chan, nextId)
                       /\ accepted' = accepted \cup {nextId}
                       /\ UNCHANGED <<selflog, config, handles, logger_handle,
                                      logsender, facade>>]_vars
    /\ [][attempted' # attempted
            => (nextId' = nextId /\ pc = "try_recv" /\ pc' = "sending")]_vars

C14_Witness ==
    /\ mode = "nonblocking"
    /\ enable_self_log
    /\ pc = "sending"
    /\ store # <<>>
    /\ nextId > 1
    /\ chan # <<>>
    /\ chan[Len(chan)] = nextId - 1
    /\ selflog = 0


\* C15: before the first poll of the future nothing has been passed to the
\* delivery capability and the channel holds, in order, exactly the records
\* whose enqueue succeeded; each of them is eventually passed to the delivery
\* capability once the future is polled (unless the runtime drops it), and
\* every batch passed is in enqueue order.
C15_ColdConstruction ==
    /\ [](pc = "cold"
            => /\ attempted = {}
               /\ shipped = {}
               /\ store = <<>>
               /\ Range(chan) = accepted
               /\ StrictlyIncreasing(chan)
               /\ ~IsFull(chan, capacity) => Len(chan) = nextId - 1)
    /\ \A k \in 1..MaxLogs :
           (pc = "cold" /\ k \in accepted) ~> (k \in attempted \/ pc = "abandoned")
    /\ [][attempted' # attempted => StrictlyIncreasing(store')]_vars

C15_Witness ==
    /\ pc = "cold"
    /\ capacity # None
    /\ IsFull(chan, capacity)
    /\ nextId - 1 > Len(chan)
    /\ facade = "alive"


\* C16: drop() of a non-blocking logger is enabled whatever the dispatcher is
\* doing, closes the producer handle and returns in the same step, leaving
\* channel and dispatcher as they are; a non-blocking facade never waits in
\* join.  The witness is a state where drop() has returned, the dispatcher
\* has not ended and an enqueued record has not been passed to delivery.
C16_NonBlockingTeardown ==
    /\ [][(mode = "nonblocking" /\ facade = "alive" /\ facade' # "alive")
            => /\ facade' = "destroyed"
               /\ ~logsender'
               /\ UNCHANGED <<chan, store, pc, ret, attempted, shipped>>]_vars
    /\ []((mode = "nonblocking" /\ facade = "alive") => ENABLED Drop)
    /\ [](mode = "nonblocking" => (facade # "joining" /\ ~logger_handle))

C16_Witness ==
    /\ mode = "nonblocking"
    /\ facade = "destroyed"
    /\ ~logsender
    /\ ~Ended
    /\ pc # "cold"
    /\ chan # <<>>
    /\ accepted \ attempted # {}


\* C17 (as claimed): when the non-blocking dispatcher wakes from its idle
\* wait the channel is as it was, so the record that woke it is still at the
\* head for the next try_recv; and while it waits it passes nothing to
\* delivery and dequeues nothing.
C17_IdleWaitLeavesChannel ==
    [][/\ (mode = "nonblocking" /\ pc = "await_next" /\ pc' = "try_recv")
            => chan' = chan
       /\ (mode = "nonblocking" /\ pc = "await_next" /\ pc' = pc)
            => (UNCHANGED <<store, attempted>> /\ Len(chan') >= Len(chan))]_vars


\* C18: in the non-blocking dispatcher a failed delivery leaves the batch
\* unchanged; while the future lives, every step either keeps the batch,
\* appends the record it dequeues from the head of the channel, or empties
\* it after a successful delivery that carried all of it; so every record
\* of a failed delivery is still in the batch, ahead of the records dequeued
\* since, until a delivery succeeds.
C18_RetentionOnFailure ==
    /\ [][(mode = "nonblocking" /\ pc' # "abandoned") =>
            /\ pc \in {"send_err", "selflog_send"} => store' = store
            /\ \/ store' = store
               \/ /\ chan # <<>>
                  /\ chan' = Tail(chan)
                  /\ store' = Append(store, Head(chan))
               \/ /\ pc = "send_ok"
                  /\ store' = <<>>
                  /\ Range(store) \subseteq shipped]_vars
    /\ []((mode = "nonblocking" /\ pc # "abandoned")
            => (attempted \ shipped) \subseteq Range(store))

C18_Witness ==
    /\ mode = "nonblocking"
    /\ pc = "send_ok"
    /\ Len(store) >= 2
    /\ store[1] = 1
    /\ selflog = 1
    /\ accepted = 1..(nextId - 1)
    /\ facade = "alive"


\* C19 (as claimed): whenever the non-blocking dispatcher is suspended
\* waiting for the next record on an open channel, its batch is empty.
C19_IdleBatchEmpty ==
    (mode = "nonblocking" /\ pc = "await_next" /\ logsender) => store = <<>>

\* C19 (amended): whenever the non-blocking dispatcher is suspended waiting
\* for the next record on an open channel, every record of its batch has
\* already been passed to a delivery call and none of them was delivered:
\* the batch is empty or is what a failed delivery left behind.
C19_IdleBatchAlreadyAttempted ==
    (mode = "nonblocking" /\ pc = "await_next" /\ logsender)
        => /\ Range(store) \subseteq attempted
           /\ Range(store) \cap shipped = {}

C19_Witness ==
    /\ mode = "nonblocking"
    /\ pc = "await_next"
    /\ logsender
    /\ facade = "alive"
    /\ store # <<>>
    /\ chan = <<>>


\* C20 (as claimed): when every delivery call succeeds, each successfully
\* enqueued record is at every state in exactly one of the channel, the
\* dispatcher's batch and a delivered batch, and no batch passed to the
\* delivery capability holds a record that an earlier batch held.
C20_ExactlyOnePlace ==
    /\ [](\A r \in accepted :
            LET inChannel == r \in Range(chan)
                inBatch == r \in Range(store) /\ pc # "send_ok"
                delivered == r \in shipped
            IN  /\ inChannel \/ inBatch \/ delivered
                /\ ~(inChannel /\ inBatch)
                /\ ~(inChannel /\ delivered)
                /\ ~(inBatch /\ delivered))
    /\ [][attempted' # attempted
            => (Range(store') \cap attempted = {}
                /\ Len(store') = Cardinality(Range(store')))]_vars

====
